---- MODULE Spec2Model ----
(***************************************************************************)
(* A model of jg::mock (src/inc/jg_mock.h): the auxiliary data of one mock *)
(* function (mock_aux), the per-call object mock_impl and the dispatch of  *)
(* mock_impl_base::impl, driven by a test that configures the auxiliary    *)
(* data, calls the mock function and resets it.                            *)
(*                                                                         *)
(* A call whose `func` is set runs user code (the hook). The call is then  *)
(* in progress while the hook runs: the hook may call the mock function    *)
(* again, and it ends by returning or by throwing. `stack` holds the calls *)
(* in progress, innermost first.                                           *)
(***************************************************************************)
EXTENDS Integers, Sequences, FiniteSets, TLC

\* ---------------------------------------------------------------- bounds
MaxVal == 1          \* parameter and result values are 0..MaxVal
MaxArity == 2        \* mock functions of 0..MaxArity parameters
MaxCalls == 3        \* calls made on all instances between two resets
MaxDepth == 2        \* calls in progress at once (hook re-entrancy)

\* ------------------------------------------------------------- constants
DefaultValue == 0    \* T{} : the value-initialised T

Values == 0..MaxVal
NoValue == -1        \* "no value": a void return, a throw, an abort
\* Prototype texts handed to the mock_aux constructor, as sequences of
\* characters. JG_MOCK builds  #return_type " " #function_name "(" ... ") " #suffix,
\* which ends in a space when the suffix is empty.
Strings == { <<"f">>, <<"f", " ">>, <<" ", "f", " ">>,
             <<"f", " ", "g">>, <<"f", " ", "g", " ">>, <<" ", " ">> }
VerifyModes == {"abort", "throw", "log"}

\* std::function<T(Params...)>: empty, or holding a callable. The callables
\* are lambdas that return the constant v when they return.
NoFunc == <<>>
Lambda(v) == <<v>>
Funcs == {NoFunc} \cup {Lambda(v) : v \in Values}

VARIABLES
    isVoid,       \* the mock function's return type T is void
    arity,        \* sizeof...(Params)
    verifyMode,   \* how jg::verify is built: abort, throw, or log and continue
    aux,          \* the mock_aux object: func, result, m_params, m_count, m_prototype
    stack,        \* calls in progress (their hook is running), innermost first
    halted,       \* the process was aborted by jg::verify
    nCalls,       \* history: calls that have exited since construction / reset
    lastArgs,     \* history: arguments of the call entered most recently
    ev,           \* history: the operation that led to this state
    peer,         \* the mock_aux of the same mock function in a second instance
                  \* of the mock class
    callerArgs,   \* the caller's objects that were the arguments of the call
                  \* entered most recently, as they are now
    isRef,        \* the mock function's return type T is a reference
    referent,     \* the caller's object that a reference result refers to
    referentThen, \* history: what `referent` was when result was assigned
    trail         \* history of the configuration since construction or reset,
                  \* kept by SpecTrail only

vars == <<isVoid, arity, verifyMode, aux, stack, halted, nCalls, lastArgs, ev,
          peer, callerArgs, isRef, referent, referentThen, trail>>

\* what the operations on `aux` leave alone
extVars == <<peer, isRef, referent, referentThen, trail>>

\* what a configuration of `aux` leaves alone, the history apart
cfgVars == <<peer, isRef, referent, referentThen>>

\* trail: result was last assigned while func was set, and func has been
\* emptied after having been set
NoTrail == [underHook |-> FALSE, cleared |-> FALSE]

\* ------------------------------------------------------------ jg_string.h
RECURSIVE TrimLeft(_), TrimRight(_)
TrimLeft(s) ==
    IF s # <<>> /\ Head(s) = " " THEN TrimLeft(Tail(s)) ELSE s
TrimRight(s) ==
    IF s # <<>> /\ s[Len(s)] = " " THEN TrimRight(SubSeq(s, 1, Len(s) - 1)) ELSE s
\* trim(prototype, " ")
trim(s) == TrimRight(TrimLeft(s))

\* ------------------------------------------------------------ jg_verify.h
\* verify(condition): nothing when the condition holds; otherwise the
\* failure the build is configured for.
verify(condition, mode) ==
    IF condition THEN "ok"
    ELSE IF mode = "abort" THEN "abort"
    ELSE IF mode = "throw" THEN "throw"
    ELSE "continue"

\* ---------------------------------------------------------- verified<T>
\* verified<T>{}: value{} and assigned = false
verified_init == [value |-> DefaultValue, assigned |-> FALSE]

\* Mutant: only the first assignment is kept.
verified_assign_once(r, other) ==
    IF r.assigned THEN r ELSE [value |-> other, assigned |-> TRUE]

\* verified::operator=(const T&) / operator=(T&&)
verified_assign(r, other) == [value |-> other, assigned |-> TRUE]

\* Mutant: operator T returns the value without verify(assigned).
verified_read_noverify(r, mode) ==
    [kind |-> "returned", value |-> r.value, violated |-> FALSE]

\* Mutant: operator T evaluates verify(assigned) but returns the value
\* whatever verify does.
verified_read_noraise(r, mode) ==
    [kind |-> "returned", value |-> r.value, violated |-> ~r.assigned]

\* verified::operator T(): verify(assigned); return value;
\* `violated` records that verify was given a false condition.
verified_read(r, mode) ==
    LET condition == r.assigned
        v == verify(condition, mode)
    IN
    IF v = "abort" THEN [kind |-> "aborted", value |-> NoValue, violated |-> ~condition]
    ELSE IF v = "throw" THEN [kind |-> "threw", value |-> NoValue, violated |-> ~condition]
    ELSE [kind |-> "returned", value |-> r.value, violated |-> ~condition]

\* ------------------------------------------------ verified<T>, T a reference
\* `value` is a pointer: null, or the address of the caller's object.
\* verified_init is also this specialisation's initial state
\* (value = nullptr, assigned = false).
NullPtr == 0
ReferentAddr == 1

\* Mutant: operator= sets assigned but not the pointer.
verified_ref_assign_null(r, otherAddr) == [value |-> r.value, assigned |-> TRUE]

\* verified::operator=(T other): value = &other; assigned = true;
verified_ref_assign(r, otherAddr) == [value |-> otherAddr, assigned |-> TRUE]

\* verified::operator T(): verify(assigned); return *value;
\* The set of possible outcomes, `object` being the caller's object now.
\* When verify lets the call continue with value == nullptr, *value is
\* undefined behaviour: the process may die, or any value may come back.
verified_ref_read(r, mode, object) ==
    LET condition == r.assigned
        v == verify(condition, mode)
    IN
    IF v = "abort" THEN {[kind |-> "aborted", value |-> NoValue, violated |-> ~condition]}
    ELSE IF v = "throw" THEN {[kind |-> "threw", value |-> NoValue, violated |-> ~condition]}
    ELSE IF r.value = NullPtr
         THEN {[kind |-> "aborted", value |-> NoValue, violated |-> ~condition]}
              \cup {[kind |-> "returned", value |-> x, violated |-> ~condition] : x \in Values}
    ELSE {[kind |-> "returned", value |-> object, violated |-> ~condition]}

\* `return aux.result;` : the conversion of the specialisation T selects
result_read(r, ref, mode, object) ==
    IF ref THEN verified_ref_read(r, mode, object) ELSE {verified_read(r, mode)}

\* ------------------------------------------------------------- mock_aux
\* Mutant: m_params starts with other values than the value-initialised ones.
params_init_one(k) == [i \in 1..k |-> 1]

\* mock_aux_parameters: std::tuple<base_t<Params>...> m_params, value-initialised
params_init(k) == [i \in 1..k |-> DefaultValue]

\* mock_aux_return<T>: a `result` member unless T is void
return_init(void) == IF void THEN <<>> ELSE <<verified_init>>

\* mock_aux(std::string prototype)
mock_aux(prototype, void, k) ==
    [ func        |-> NoFunc,
      result      |-> return_init(void),
      m_params    |-> params_init(k),
      m_count     |-> 0,
      m_prototype |-> trim(prototype) ]

count(a) == a.m_count
called(a) == a.m_count > 0
prototype(a) == a.m_prototype
param(a, Number) == a.m_params[Number]

\* Mutant: reset() leaves func as it is.
reset_keep_func(a, void, k) ==
    [mock_aux(a.m_prototype, void, k) EXCEPT !.func = a.func]

\* Mutant: reset() only clears the counter and the hook.
reset_count_func_only(a, void, k) ==
    [a EXCEPT !.m_count = 0, !.func = NoFunc]

\* Mutant: reset() constructs the new mock_aux without the prototype.
reset_lose_prototype(a, void, k) == mock_aux(<<>>, void, k)

\* void reset() { *this = mock_aux(m_prototype); }
reset(a, void, k) == mock_aux(a.m_prototype, void, k)

\* Mutant: set_params stores the first argument only.
set_params_first(a, params) == [a EXCEPT !.m_params[1] = params[1]]

\* Mutant: the call is counted when its arguments are stored, on entry.
set_params_counts(a, params) ==
    [a EXCEPT !.m_params = params, !.m_count = @ + 1]

\* Mutant: set_params stores nothing.
set_params_none(a, params) == a

\* mock_aux_parameters::set_params: m_params = std::make_tuple(params...)
set_params(a, params) == [a EXCEPT !.m_params = params]

\* ------------------------------------------------------------ mock_impl
\* Mutant: the destructor also empties func (a hook good for one call).
dtor_one_shot_hook(a) == [a EXCEPT !.m_count = @ + 1, !.func = NoFunc]

\* Mutant: the destructor does not count.
dtor_noinc(a) == a

\* Mutant: the destructor counts twice.
dtor_twice(a) == [a EXCEPT !.m_count = @ + 2]

\* ~mock_impl() { aux.m_count++; }
\* m_count is a size_t; it stays below MaxCalls here, far from wrapping.
dtor(a) == [a EXCEPT !.m_count = @ + 1]

\* Mutant: an assigned result is preferred to func.
impl_base_result_first(a, void) ==
    IF ~void /\ a.result[1].assigned THEN "slot"
    ELSE IF a.func # NoFunc THEN "hook"
    ELSE IF void THEN "void"
    ELSE "slot"

\* Mutant: a non-void mock function with an unassigned result reads the
\* result (and so verifies it) whether or not func is set.
impl_base_reads_unassigned(a, void) ==
    IF ~void /\ ~a.result[1].assigned THEN "slot"
    ELSE IF a.func # NoFunc THEN "hook"
    ELSE IF void THEN "void"
    ELSE "slot"

\* Mutant: func is called whether or not it is set.
impl_base_always_func(a, void) == "hook"

\* mock_impl_base::impl: which way the call is resolved
\*   void:     if (aux.func) aux.func(...);
\*   non-void: if (aux.func) return aux.func(...); return aux.result;
impl_base(a, void) ==
    IF a.func # NoFunc THEN "hook"
    ELSE IF void THEN "void"
    ELSE "slot"

\* --------------------------------------------------------------- history
\* The operation that led to the current state: its name, the mock_aux
\* before it, the arguments of a call, how the call ended (kind), which way
\* it was resolved (via), the value it returned, whether verify() was given
\* a false condition, whether verified::operator T was evaluated, and for a
\* call that exits from its hook, <<its entry in `stack`>>. For an
\* assignment to result, args is <<the value assigned>>.
Event(op, before, args, kind, via, value, violated, slotRead, frame) ==
    [ op |-> op, before |-> before, args |-> args, kind |-> kind, via |-> via,
      value |-> value, violated |-> violated, slotRead |-> slotRead, frame |-> frame ]

\* A call in progress: m_count when it was entered, the calls entered since
\* (by its hook, or by the hooks of those), and whether all of them had the
\* arguments of this call.
Frame(a) == [count0 |-> a.m_count, nested |-> 0, intact |-> TRUE]
Nest(f, same) == [f EXCEPT !.nested = @ + 1, !.intact = @ /\ same]

\* The mock_aux as an event records it. The parameters captured before a
\* call are not recorded (no property reads them).
Snapshot(a) == a
SnapshotOfCall(a) == [a EXCEPT !.m_params = <<>>]

Args == [1..arity -> Values]
Depth == Len(stack)
\* calls entered since construction / reset
Entered == nCalls + Depth

\* ------------------------------------------------------------------ Init
\* The state after construction, for a mock function of the given
\* prototype texts, return types, arities and verify configurations.
Start(protos, voids, refs, arities, modes) ==
    /\ isVoid \in voids
    /\ isRef \in refs
    /\ isRef => ~isVoid
    /\ arity \in arities
    /\ verifyMode \in modes
    /\ \E p \in protos : aux = mock_aux(p, isVoid, arity)
    /\ peer = aux
    /\ stack = <<>>
    /\ halted = FALSE
    /\ nCalls = 0
    /\ lastArgs = <<>>
    /\ callerArgs = <<>>
    /\ referent \in (IF isRef THEN Values ELSE {DefaultValue})
    /\ referentThen = NoValue
    /\ trail = NoTrail
    /\ ev = Event("init", Snapshot(aux), <<>>, "none", "none", NoValue, FALSE, FALSE, <<>>)

\* One mock function returning void or a value.
Init == Start(Strings, BOOLEAN, {FALSE}, 0..MaxArity, VerifyModes)

\* --------------------------------------------------------------- actions
\* Mutant: assigning an empty callable leaves the hook in place.
FuncAssigned_keeps_hook(f) ==
    /\ ~halted /\ Depth = 0
    /\ aux' = IF f = NoFunc THEN aux ELSE [aux EXCEPT !.func = f]
    /\ ev' = Event("func", Snapshot(aux), <<>>, "none", "none", NoValue, FALSE, FALSE, <<>>)
    /\ UNCHANGED <<isVoid, arity, verifyMode, stack, halted, nCalls, lastArgs>>
    /\ UNCHANGED <<callerArgs, cfgVars>>

\* The test assigns aux.func (a callable, or nullptr to clear it).
FuncAssigned(f) ==
    /\ ~halted /\ Depth = 0
    /\ aux' = [aux EXCEPT !.func = f]
    /\ ev' = Event("func", Snapshot(aux), <<>>, "none", "none", NoValue, FALSE, FALSE, <<>>)
    /\ UNCHANGED <<isVoid, arity, verifyMode, stack, halted, nCalls, lastArgs>>
    /\ UNCHANGED <<callerArgs, cfgVars>>

AssignFunc(f) == FuncAssigned(f) /\ UNCHANGED trail

\* The test assigns aux.result (non-void mock functions only).
ResultAssigned(v) ==
    /\ ~halted /\ Depth = 0 /\ ~isVoid /\ ~isRef
    /\ aux' = [aux EXCEPT !.result = <<verified_assign(aux.result[1], v)>>]
    /\ ev' = Event("result", Snapshot(aux), <<v>>, "none", "none", NoValue, FALSE, FALSE, <<>>)
    /\ UNCHANGED <<isVoid, arity, verifyMode, stack, halted, nCalls, lastArgs>>
    /\ UNCHANGED <<callerArgs, cfgVars>>

AssignResult(v) == ResultAssigned(v) /\ UNCHANGED trail

\* The test calls aux.reset().
ResetDone ==
    /\ ~halted /\ Depth = 0
    /\ aux' = reset(aux, isVoid, arity)
    /\ nCalls' = 0
    /\ lastArgs' = <<>>
    /\ ev' = Event("reset", Snapshot(aux), <<>>, "none", "none", NoValue, FALSE, FALSE, <<>>)
    /\ callerArgs' = <<>>
    /\ UNCHANGED <<isVoid, arity, verifyMode, stack, halted>>
    /\ UNCHANGED cfgVars

Reset == ResetDone /\ UNCHANGED trail

\* The mock function is called with `args`, by the test (Depth = 0) or by
\* the running hook (Depth > 0):
\*   mock_impl(aux).impl(args): set_params (arity > 0), then mock_impl_base::impl;
\*   ~mock_impl when the call exits.
\* With func set the call stays in progress while the hook runs; otherwise
\* it is resolved and exits within this step.
Call(args) ==
    /\ ~halted /\ Depth < MaxDepth /\ Entered + count(peer) < MaxCalls
    /\ LET a1 == IF arity > 0 THEN set_params(aux, args) ELSE aux
           way == impl_base(a1, isVoid)
           nest == [i \in 1..Depth |-> Nest(stack[i], args = lastArgs)]
       IN
       /\ lastArgs' = args
       /\ callerArgs' = args
       /\ CASE way = "hook" ->
                 /\ aux' = a1
                 /\ stack' = <<Frame(aux)>> \o nest
                 /\ ev' = Event("call", SnapshotOfCall(aux), args, "entered", "hook", NoValue, FALSE, FALSE, <<>>)
                 /\ UNCHANGED <<halted, nCalls>>
            [] way = "void" ->
                 /\ aux' = dtor(a1)
                 /\ nCalls' = nCalls + 1
                 /\ stack' = nest
                 /\ ev' = Event("call", SnapshotOfCall(aux), args, "returned", "void", NoValue, FALSE, FALSE, <<>>)
                 /\ UNCHANGED halted
            [] way = "slot" ->
                 \E r \in result_read(a1.result[1], isRef, verifyMode, referent) :
                 IF r.kind = "aborted"
                 THEN /\ aux' = a1
                      /\ halted' = TRUE
                      /\ stack' = nest
                      /\ ev' = Event("call", SnapshotOfCall(aux), args, r.kind, "slot", r.value, r.violated, TRUE, <<>>)
                      /\ UNCHANGED nCalls
                 ELSE /\ aux' = dtor(a1)
                      /\ nCalls' = nCalls + 1
                      /\ stack' = nest
                      /\ ev' = Event("call", SnapshotOfCall(aux), args, r.kind, "slot", r.value, r.violated, TRUE, <<>>)
                      /\ UNCHANGED halted
    /\ UNCHANGED <<isVoid, arity, verifyMode>>
    /\ UNCHANGED extVars

\* The hook of the innermost call in progress returns: the call returns the
\* hook's value (nothing for a void mock function) and ~mock_impl runs.
HookReturn ==
    /\ ~halted /\ Depth > 0
    /\ aux' = dtor(aux)
    /\ stack' = Tail(stack)
    /\ nCalls' = nCalls + 1
    /\ ev' = Event("hook_return", Snapshot(aux), <<>>, "returned", "hook",
                   IF isVoid THEN NoValue ELSE aux.func[1], FALSE, FALSE, <<Head(stack)>>)
    /\ UNCHANGED <<isVoid, arity, verifyMode, halted, lastArgs>>
    /\ UNCHANGED <<callerArgs, extVars>>

\* Mutant: a throwing hook skips the counter (m_count++ as a statement
\* after the hook's call instead of a destructor).
HookThrow_nocount ==
    /\ ~halted /\ Depth > 0
    /\ stack' = Tail(stack)
    /\ nCalls' = nCalls + 1
    /\ ev' = Event("hook_throw", Snapshot(aux), <<>>, "threw", "hook",
                   NoValue, FALSE, FALSE, <<Head(stack)>>)
    /\ UNCHANGED <<isVoid, arity, verifyMode, aux, halted, lastArgs>>
    /\ UNCHANGED <<callerArgs, extVars>>

\* The hook of the innermost call in progress throws: the exception leaves
\* the mock function, unwinding the mock_impl temporary (~mock_impl runs).
HookThrow ==
    /\ ~halted /\ Depth > 0
    /\ aux' = dtor(aux)
    /\ stack' = Tail(stack)
    /\ nCalls' = nCalls + 1
    /\ ev' = Event("hook_throw", Snapshot(aux), <<>>, "threw", "hook",
                   NoValue, FALSE, FALSE, <<Head(stack)>>)
    /\ UNCHANGED <<isVoid, arity, verifyMode, halted, lastArgs>>
    /\ UNCHANGED <<callerArgs, extVars>>

Next ==
    \/ \E f \in Funcs : AssignFunc(f)
    \/ \E v \in Values : AssignResult(v)
    \/ Reset
    \/ \E args \in Args : Call(args)
    \/ HookReturn
    \/ HookThrow

Spec == Init /\ [][Next]_vars

\* ------------------------------------------- a second instance of the class
\* JG_MOCK declares the mock_aux as a member of the mock class, so a second
\* instance has a mock_aux of its own, here `peer`.

\* Mutant: every instance's function uses the first instance's mock_aux.
mock_impl_aux_shared(instance) == "this"

\* mock_impl(const TMockAux& aux) : aux(const_cast<TMockAux&>(aux)), called
\* by the member function with its own instance's member: the mock_aux
\* that a call on `instance` works on.
mock_impl_aux(instance) == instance

PeerOps == {"peer_func", "peer_result", "peer_reset", "peer_call"}

\* peer.func = f;
PeerAssignFunc(f) ==
    /\ ~halted
    /\ peer' = [peer EXCEPT !.func = f]
    /\ ev' = Event("peer_func", Snapshot(aux), <<>>, "none", "none", NoValue, FALSE, FALSE, <<>>)
    /\ UNCHANGED <<isVoid, arity, verifyMode, aux, stack, halted, nCalls, lastArgs>>
    /\ UNCHANGED <<callerArgs, isRef, referent, referentThen, trail>>

\* peer.result = v;
PeerAssignResult(v) ==
    /\ ~halted /\ ~isVoid /\ ~isRef
    /\ peer' = [peer EXCEPT !.result = <<verified_assign(peer.result[1], v)>>]
    /\ ev' = Event("peer_result", Snapshot(aux), <<>>, "none", "none", NoValue, FALSE, FALSE, <<>>)
    /\ UNCHANGED <<isVoid, arity, verifyMode, aux, stack, halted, nCalls, lastArgs>>
    /\ UNCHANGED <<callerArgs, isRef, referent, referentThen, trail>>

\* peer.reset();
PeerReset ==
    /\ ~halted
    /\ peer' = reset(peer, isVoid, arity)
    /\ ev' = Event("peer_reset", Snapshot(aux), <<>>, "none", "none", NoValue, FALSE, FALSE, <<>>)
    /\ UNCHANGED <<isVoid, arity, verifyMode, aux, stack, halted, nCalls, lastArgs>>
    /\ UNCHANGED <<callerArgs, isRef, referent, referentThen, trail>>

\* The mock function is called on the second instance, from anywhere (also
\* from a hook of the first instance); a hook of the second instance only
\* returns or throws, so the whole call is one step.
PeerCall(args) ==
    LET target == mock_impl_aux("peer")
        b  == IF target = "peer" THEN peer ELSE aux
        b1 == IF arity > 0 THEN set_params(b, args) ELSE b
        way == impl_base(b1, isVoid)
    IN
    /\ ~halted /\ count(b) + Entered < MaxCalls  \* bound on the calls made
    /\ \E r \in (IF way = "slot"
                 THEN result_read(b1.result[1], isRef, verifyMode, referent)
                 ELSE {[kind |-> "returned", value |-> NoValue, violated |-> FALSE]}) :
          LET b2 == IF r.kind = "aborted" THEN b1 ELSE dtor(b1) IN
          /\ halted' = (r.kind = "aborted")
          /\ IF target = "peer"
             THEN peer' = b2 /\ aux' = aux
             ELSE aux' = b2 /\ peer' = peer
          /\ ev' = Event("peer_call", SnapshotOfCall(aux), <<>>, r.kind, way, NoValue, r.violated, way = "slot", <<>>)
    /\ UNCHANGED <<isVoid, arity, verifyMode, stack, nCalls, lastArgs>>
    /\ UNCHANGED <<callerArgs, isRef, referent, referentThen, trail>>

\* Two instances of a mock class with one mock function of one parameter
\* that returns a value.
PairProtos == {<<"f">>}
PairArities == {1}
PairModes == {"throw"}

InitPair == Start(PairProtos, {FALSE}, {FALSE}, PairArities, PairModes)

NextPair ==
    \/ Next
    \/ \E f \in Funcs : PeerAssignFunc(f)
    \/ \E v \in Values : PeerAssignResult(v)
    \/ PeerReset
    \/ \E args \in Args : PeerCall(args)

SpecPair == InitPair /\ [][NextPair]_vars

\* ------------------------------------- reference parameters and return type
\* Mutant: the tuple's element type is the parameter type itself.
base_t_keeps_reference(T) == T

\* base_t<T> = std::remove_cv_t<std::remove_reference_t<T>>, the element
\* type of tuple_params_t: an object of its own for each parameter.
base_t(T) == "value"

\* What param<Number>() yields for a parameter declared as a reference: the
\* tuple's element, which is the caller's object itself only if the
\* element type is a reference.
captured(Number) ==
    IF base_t("reference") = "reference" THEN callerArgs[Number]
    ELSE param(aux, Number)

\* The hook of the innermost call in progress assigns through its
\* reference parameter i, that is to the caller's object.
HookWrite(i, v) ==
    /\ ~halted /\ Depth > 0 /\ Head(stack).nested = 0
    /\ i \in 1..arity
    /\ callerArgs' = [callerArgs EXCEPT ![i] = v]
    /\ ev' = Event("hook_write", Snapshot(aux), <<>>, "none", "none", NoValue, FALSE, FALSE, <<>>)
    /\ UNCHANGED <<isVoid, arity, verifyMode, aux, stack, halted, nCalls, lastArgs>>
    /\ UNCHANGED extVars

\* After the call the caller assigns to the object it passed as argument i.
CallerWrite(i, v) ==
    /\ ~halted /\ Depth = 0 /\ lastArgs # <<>>
    /\ i \in 1..arity
    /\ callerArgs' = [callerArgs EXCEPT ![i] = v]
    /\ ev' = Event("caller_write", Snapshot(aux), <<>>, "none", "none", NoValue, FALSE, FALSE, <<>>)
    /\ UNCHANGED <<isVoid, arity, verifyMode, aux, stack, halted, nCalls, lastArgs>>
    /\ UNCHANGED extVars

\* aux.result = object;  for a mock function returning a reference
AssignResultRef ==
    /\ ~halted /\ Depth = 0 /\ isRef
    /\ aux' = [aux EXCEPT !.result = <<verified_ref_assign(aux.result[1], ReferentAddr)>>]
    /\ referentThen' = referent
    /\ ev' = Event("ref_result", Snapshot(aux), <<>>, "none", "none", NoValue, FALSE, FALSE, <<>>)
    /\ UNCHANGED <<isVoid, arity, verifyMode, stack, halted, nCalls, lastArgs>>
    /\ UNCHANGED <<callerArgs, peer, isRef, referent, trail>>

\* The owner of the referenced object (the test, or a hook) changes it.
WriteReferent(v) ==
    /\ ~halted /\ isRef /\ v # referent
    /\ referent' = v
    /\ ev' = Event("referent_write", Snapshot(aux), <<>>, "none", "none", NoValue, FALSE, FALSE, <<>>)
    /\ UNCHANGED <<isVoid, arity, verifyMode, aux, stack, halted, nCalls, lastArgs>>
    /\ UNCHANGED <<callerArgs, peer, isRef, referentThen, trail>>

\* One mock function of one reference parameter that returns a value or a
\* reference.
RefProtos == {<<"f">>}
RefArities == {1}

InitRef == Start(RefProtos, {FALSE}, BOOLEAN, RefArities, VerifyModes)

NextRef ==
    \/ Next
    \/ \E i \in 1..arity, v \in Values : HookWrite(i, v)
    \/ \E i \in 1..arity, v \in Values : CallerWrite(i, v)
    \/ AssignResultRef
    \/ \E v \in Values : WriteReferent(v)

SpecRef == InitRef /\ [][NextRef]_vars

\* --------------------------------------------- configuration with its history
\* The configuration operations, keeping in `trail` how the present
\* configuration came about.
TrailAssignFunc(f) ==
    /\ FuncAssigned(f)
    /\ trail' = [trail EXCEPT !.cleared =
                     IF f = NoFunc THEN (aux.func # NoFunc \/ @) ELSE FALSE]

TrailAssignResult(v) ==
    /\ ResultAssigned(v)
    /\ trail' = [trail EXCEPT !.underHook = (aux.func # NoFunc)]

TrailReset ==
    /\ ResetDone
    /\ trail' = NoTrail

\* One mock function of at most one parameter that returns a value.
TrailProtos == {<<"f">>}
TrailArities == {0, 1}

InitTrail == Start(TrailProtos, {FALSE}, {FALSE}, TrailArities, VerifyModes)

NextTrail ==
    \/ \E f \in Funcs : TrailAssignFunc(f)
    \/ \E v \in Values : TrailAssignResult(v)
    \/ TrailReset
    \/ \E args \in Args : Call(args)
    \/ HookReturn
    \/ HookThrow

SpecTrail == InitTrail /\ [][NextTrail]_vars

\* ---------------------------------------------------------------- claims
\* The last operation was a call of the mock function that has exited
\* (returned or thrown), directly or from its hook.
CallExited ==
    \/ ev.op = "call" /\ ev.kind \in {"returned", "threw"}
    \/ ev.op \in {"hook_return", "hook_throw"}

\* The last operation was a call of a non-void mock function made with no
\* func set and result never assigned.
UnconfiguredCall ==
    /\ ev.op = "call" /\ ~isVoid
    /\ ev.before.func = NoFunc
    /\ ~ev.before.result[1].assigned

\* C1: after N calls of the mock function since the binding was constructed
\* (or reset), count() = N, and called() is false exactly when N = 0.
C1_CountIsNumberOfCalls ==
    /\ count(aux) = nCalls
    /\ (~called(aux)) <=> (nCalls = 0)

C1_Witness ==
    /\ Depth = 0 /\ nCalls = 3 /\ count(aux) = 3 /\ called(aux)

\* C2: every call of a non-void mock function with no func set and result
\* never assigned evaluates verify(assigned) with assigned = false.
C2_UnassignedReadIsVerified ==
    UnconfiguredCall => (ev.slotRead /\ ev.violated /\ ev.via = "slot")

C2_Witness ==
    /\ UnconfiguredCall /\ ev.violated
    /\ verifyMode = "throw" /\ ev.kind = "threw"
    /\ count(aux) = 2

\* C3: with func and result both set, every call returns the value the
\* hook produces and result is not read.
C3_HookWinsOverResult ==
    (/\ ~isVoid
     /\ ev.op \in {"call", "hook_return", "hook_throw"}
     /\ ev.before.func # NoFunc
     /\ ev.before.result[1].assigned)
    => /\ ev.via = "hook"
       /\ ~ev.slotRead
       /\ ev.kind = "returned" => ev.value = ev.before.func[1]

C3_Witness ==
    /\ ~isVoid /\ ev.op = "hook_return" /\ ev.kind = "returned"
    /\ ev.before.result[1].assigned
    /\ ev.before.result[1].value = 0
    /\ ev.before.func = Lambda(1)
    /\ ev.value = 1

\* C4: a call raises count() by exactly one when it exits, by returning or
\* by throwing (a throwing hook included), and by nothing when it is entered.
C4_CountedOnceOnExit ==
    /\ CallExited => count(aux) = ev.before.m_count + 1
    /\ (ev.op = "call" /\ ev.kind = "entered") => count(aux) = ev.before.m_count

C4_Witness ==
    /\ ev.op = "hook_throw" /\ ev.kind = "threw"
    /\ ev.before.m_count = 1 /\ count(aux) = 2

\* C5: for arity k >= 1, from a call with arguments a1..ak until the next
\* call, param<i>() = ai for every i in 1..k; the next call replaces all k.
C5_ParamsAreLastCallsArguments ==
    (arity >= 1 /\ lastArgs # <<>>)
    => \A i \in 1..arity : param(aux, i) = lastArgs[i]

C5_Witness ==
    /\ arity = 2 /\ count(aux) = 2 /\ ev.op = "func"
    /\ lastArgs = <<1, 0>>
    /\ param(aux, 1) = 1 /\ param(aux, 2) = 0

\* C6: after reset(), count() = 0, called() is false, func is empty (a call
\* made with func empty does not go through a hook), and prototype() is the
\* string it was before the reset.
C6_ResetClearsCountAndHook ==
    /\ ev.op = "reset" =>
          /\ count(aux) = 0
          /\ ~called(aux)
          /\ aux.func = NoFunc
          /\ prototype(aux) = prototype(ev.before)
    /\ (ev.op = "call" /\ ev.before.func = NoFunc) => ev.via # "hook"

C6_Witness ==
    /\ ev.op = "reset"
    /\ count(ev.before) = 3 /\ ev.before.func # NoFunc
    /\ prototype(ev.before) = <<"f", " ", "g">>
    /\ count(aux) = 0 /\ aux.func = NoFunc

\* C7: after reset(), result is unassigned and every param<i>() is the
\* default-constructed value, whatever was assigned or captured before.
C7_ResetClearsResultAndParams ==
    ev.op = "reset" =>
        /\ ~isVoid => (~aux.result[1].assigned /\ aux.result[1].value = DefaultValue)
        /\ \A i \in 1..arity : param(aux, i) = DefaultValue

C7_Witness ==
    /\ ev.op = "reset" /\ ~isVoid /\ arity = 2
    /\ ev.before.result[1].assigned /\ ev.before.result[1].value = 1
    /\ ev.before.m_params = <<1, 1>>
    /\ ~aux.result[1].assigned /\ aux.m_params = <<0, 0>>

\* C8 as claimed: a call of a non-void mock function with no func and an
\* unassigned result never returns a value to the caller, however verify
\* is configured.
C8_NeverReturnsUnconfigured ==
    UnconfiguredCall => ev.kind # "returned"

\* C8 amended: such a call returns no value when verify aborts or throws;
\* when verify logs and continues, the call reports the violation and then
\* returns the value-initialised result.
C8_NoReturnWhenVerifyStops ==
    UnconfiguredCall =>
        /\ verifyMode = "abort" => (ev.kind = "aborted" /\ halted)
        /\ verifyMode = "throw" => ev.kind = "threw"
        /\ verifyMode = "log" =>
              (ev.kind = "returned" /\ ev.violated /\ ev.value = DefaultValue)

C8_Witness ==
    /\ UnconfiguredCall /\ verifyMode = "abort"
    /\ ev.kind = "aborted" /\ halted

\* C9: while func is set, a call never evaluates verify(assigned) and never
\* reads result, even when result was never assigned.
C9_HookNeverVerifies ==
    (/\ ev.op \in {"call", "hook_return", "hook_throw"}
     /\ ev.before.func # NoFunc)
    => (~ev.violated /\ ~ev.slotRead /\ ev.kind # "aborted" /\ ~halted)

C9_Witness ==
    /\ ~isVoid /\ ev.op = "hook_return" /\ ev.kind = "returned"
    /\ ~aux.result[1].assigned
    /\ ~ev.violated /\ ev.value = 1

\* C10: when a call whose hook (and the hooks it started) made m nested
\* calls exits, count() is m + 1 more than when it was entered, and the
\* captured parameters are the arguments of the call entered last.
C10_ReentrantCallsCounted ==
    ev.frame # <<>> =>
        /\ count(aux) = ev.frame[1].count0 + ev.frame[1].nested + 1
        /\ arity >= 1 => aux.m_params = lastArgs

\* An outer call has exited whose hook made one nested call, with other
\* arguments than the outer call's: the parameters are the nested call's.
C10_Witness ==
    /\ Depth = 0 /\ ev.frame # <<>> /\ arity = 2
    /\ ev.frame[1].nested = 1 /\ ~ev.frame[1].intact
    /\ count(aux) = ev.frame[1].count0 + 2
    /\ aux.m_params = lastArgs

\* C12: prototype() is the same string in every reachable state: no call,
\* assignment of func or result, or reset() changes it.
C12_PrototypeNeverChanges ==
    prototype(aux) = prototype(ev.before)

C12_Witness ==
    /\ ev.op = "reset" /\ count(ev.before) = 2
    /\ ~isVoid /\ ev.before.result[1].assigned
    /\ prototype(ev.before) = <<"f", " ", "g">>
    /\ prototype(aux) = <<"f", " ", "g">>

\* C13: an assignment to result always takes effect (the last one wins),
\* and with no func set every call returns the value assigned last, without
\* changing result.
C13_LastResultWins ==
    /\ ev.op = "result" =>
          (aux.result[1].assigned /\ aux.result[1].value = ev.args[1])
    /\ (/\ ev.op = "call" /\ ~isVoid
        /\ ev.before.func = NoFunc
        /\ ev.before.result[1].assigned)
       => /\ ev.kind = "returned" /\ ~ev.violated
          /\ ev.value = ev.before.result[1].value
          /\ aux.result = ev.before.result

\* result is assigned again, with another value
C13_Witness ==
    /\ ev.op = "result" /\ count(aux) = 2
    /\ ev.before.result[1].assigned /\ ev.before.result[1].value = 0
    /\ aux.result[1].value = 1

\* C14: while the hook of a call runs, count() is what it was when the
\* call was entered plus the nested calls that have exited since; the call
\* itself is counted only when it exits.
C14_CountedOnExitNotEntry ==
    /\ Depth > 0 => count(aux) = Head(stack).count0 + Head(stack).nested
    /\ (ev.op = "call" /\ ev.kind = "entered") => count(aux) = nCalls
    /\ ev.frame # <<>> => count(aux) = ev.frame[1].count0 + ev.frame[1].nested + 1

C14_Witness ==
    /\ Depth = 1 /\ ev.op = "call" /\ ev.kind = "entered"
    /\ Head(stack).count0 = 2 /\ count(aux) = 2 /\ nCalls = 2

\* C15: the arguments are captured on entry: while the hook of a call runs
\* and has made no nested call, param<i>() is the i-th argument of that call.
C15_CapturedOnEntry ==
    /\ (ev.op = "call" /\ arity >= 1) => aux.m_params = ev.args
    /\ (Depth > 0 /\ Head(stack).nested = 0 /\ arity >= 1)
       => \A i \in 1..arity : param(aux, i) = lastArgs[i]

C15_Witness ==
    /\ Depth = 1 /\ Head(stack).nested = 0 /\ arity = 2
    /\ ev.op = "call" /\ ev.kind = "entered" /\ ev.args = <<0, 1>>
    /\ count(aux) = 1
    /\ param(aux, 1) = 0 /\ param(aux, 2) = 1

\* C16: with verify configured to throw, a call that fails on the unassigned
\* result is recorded: count() is one more, the parameters are the failed
\* call's arguments, and func and result are as before.
C16_FailedCallIsRecorded ==
    (UnconfiguredCall /\ verifyMode = "throw")
    => /\ ev.kind = "threw"
       /\ count(aux) = ev.before.m_count + 1
       /\ arity >= 1 => aux.m_params = ev.args
       /\ aux.func = ev.before.func
       /\ aux.result = ev.before.result

C16_Witness ==
    /\ UnconfiguredCall /\ verifyMode = "throw" /\ ev.kind = "threw"
    /\ arity = 2 /\ ev.args = <<1, 1>> /\ aux.m_params = <<1, 1>>
    /\ ev.before.m_count = 0 /\ count(aux) = 1

\* C17: a call of a void mock function with no func set returns normally,
\* without any failure and without a value, captures its arguments and
\* raises count() by one.
C17_VoidCallWithoutHook ==
    (ev.op = "call" /\ isVoid /\ ev.before.func = NoFunc)
    => /\ ev.kind = "returned" /\ ev.value = NoValue
       /\ ~ev.violated /\ ~ev.slotRead /\ ~halted
       /\ count(aux) = ev.before.m_count + 1
       /\ arity >= 1 => aux.m_params = ev.args

C17_Witness ==
    /\ ev.op = "call" /\ isVoid /\ ev.before.func = NoFunc
    /\ ev.kind = "returned" /\ arity = 2 /\ aux.m_params = <<1, 0>>
    /\ count(aux) = 3

\* C18: with no call since construction or the last reset, every
\* param<i>() is the default-constructed value.
C18_ParamsDefaultBeforeAnyCall ==
    lastArgs = <<>> => \A i \in 1..arity : param(aux, i) = DefaultValue

C18_Witness ==
    /\ lastArgs = <<>> /\ arity = 2 /\ ev.op = "func"
    /\ aux.func # NoFunc /\ count(aux) = 0
    /\ param(aux, 1) = 0 /\ param(aux, 2) = 0

\* C11: the bindings of two instances are independent: a configuration of or
\* a call on the second instance changes nothing of the first instance's
\* mock_aux (count, params, result, func), and an operation on the first
\* instance changes nothing of the second's, whatever the interleaving.
C11_BindingsAreIndependent ==
    [][ /\ (ev'.op \in PeerOps) => (aux' = aux)
        /\ (ev'.op \notin PeerOps) => (peer' = peer) ]_vars

C11_Witness ==
    /\ ev.op = "peer_call" /\ ev.kind = "returned"
    /\ count(peer) = 2 /\ count(aux) = 1
    /\ peer.m_params # aux.m_params
    /\ peer.func # aux.func
    /\ peer.result # aux.result

\* C19: for a parameter declared as a reference, the captured parameter is
\* a copy made when the call was entered: whatever the hook writes through
\* the reference and whatever the caller does to its object afterwards,
\* param<i>() is still the argument the most recent call was entered with.
C19_CapturedParamsAreCopies ==
    (arity >= 1 /\ lastArgs # <<>>) =>
        \A i \in 1..arity : captured(i) = lastArgs[i]

C19_Witness ==
    /\ ev.op = "hook_write"
    /\ arity >= 1
    /\ callerArgs[1] # lastArgs[1]
    /\ param(aux, 1) = lastArgs[1]

\* C20: for a reference return type, assigning result stores the address
\* of the caller's object, not a copy; a call without hook then returns
\* what that object holds at the time of the call, so a change made to the
\* object after the assignment is seen by later calls.
C20_ReferenceResultIsLive ==
    /\ ev.op = "ref_result" =>
          aux.result[1] = [value |-> ReferentAddr, assigned |-> TRUE]
    /\ (ev.op = "call" /\ isRef /\ ev.before.func = NoFunc
          /\ ev.before.result[1].assigned)
        => /\ ev.kind = "returned" /\ ~ev.violated
           /\ ev.value = referent
           /\ aux.result = ev.before.result

C20_Witness ==
    /\ ev.op = "call" /\ isRef /\ ev.before.func = NoFunc
    /\ ev.before.result[1].assigned
    /\ ev.kind = "returned"
    /\ ev.value = referent
    /\ referentThen # NoValue /\ referentThen # referent

\* C21: once func has been emptied after having been set, with no reset
\* in between, a call goes to result: it returns the value last assigned
\* to result, also when that assignment was made while func was set, and
\* raises the precondition violation when result was never assigned.
C21_ClearedHookFallsBackToResult ==
    (ev.op = "call" /\ ~isVoid /\ trail.cleared)
    => /\ ev.via = "slot" /\ ev.slotRead
       /\ ev.before.result[1].assigned
            => /\ ev.kind = "returned" /\ ~ev.violated
               /\ ev.value = ev.before.result[1].value
       /\ ~ev.before.result[1].assigned
            => /\ ev.violated
               /\ ev.kind = (CASE verifyMode = "abort" -> "aborted"
                               [] verifyMode = "throw" -> "threw"
                               [] verifyMode = "log" -> "returned")

C21_Witness ==
    /\ ev.op = "call" /\ trail.cleared /\ trail.underHook
    /\ ev.before.func = NoFunc
    /\ ev.via = "slot" /\ ev.kind = "returned"
    /\ ev.value = 1 /\ ev.before.result[1].value = 1
    /\ count(aux) = 2

\* C22: configuration and invocation touch disjoint state: assigning func
\* or result leaves count(), called() and the captured parameters as they
\* were, and a call, through the hook or through result, leaves func and
\* result (value and assigned flag) as they were.
C22_ConfigurationAndCallsAreDisjoint ==
    /\ ev.op \in {"func", "result"}
         => /\ count(aux) = count(ev.before)
            /\ called(aux) = called(ev.before)
            /\ aux.m_params = ev.before.m_params
    /\ ev.op \in {"call", "hook_return", "hook_throw"}
         => /\ aux.func = ev.before.func
            /\ aux.result = ev.before.result

C22_Witness ==
    /\ ev.op = "hook_return"
    /\ aux.func # NoFunc
    /\ ~isVoid /\ aux.result[1].assigned /\ aux.result[1].value = 1
    /\ count(aux) = 2
    /\ arity = 2 /\ aux.m_params = <<1, 0>>
====
